---- MODULE Spec2Model ----
(***************************************************************************)
(* superfsmon: the restart coordination core of superfsmon.py.             *)
(*                                                                         *)
(* One thread is spawned per filesystem event (on_any_event) and runs      *)
(* commence_restart: a non-blocking try-acquire of pre_restarting_lock,    *)
(* a debounce sleep, a blocking acquire of restarting_lock, then           *)
(* update_groups (with --reload) and restart_programs.                     *)
(*                                                                         *)
(* main() up to the start of the watch loop (validate_args, the disabled   *)
(* test, the set-up) is modelled by the Main actions and checked under     *)
(* MainSpec; Spec starts with the watch loop running.                      *)
(*                                                                         *)
(* The supervisor behind rpc.supervisor is an external server: its         *)
(* answers are drawn nondeterministically, its process table is the        *)
(* variable statename.  A target "group:name" is represented by the index  *)
(* of its row in ProcTable (the strings are unique per row).  The number   *)
(* of change signals is not bounded; a thread identity is free again once  *)
(* its thread has returned.                                                *)
(***************************************************************************)
EXTENDS Integers, Sequences, FiniteSets, TLC

\* ---------------------------------------------------------------- bounds
NThreads   == 3    \* thread identities alive at the same time
MaxMembers == 1    \* per-process results returned by stopProcessGroup

Threads == 1 .. NThreads

\* ------------------------------------------------- the supervised processes
OwnPid == 100

ProcTable ==
    << [group |-> "g1",  name |-> "web",        pid |-> 101],
       [group |-> "g2",  name |-> "db",         pid |-> 102],
       [group |-> "mon", name |-> "superfsmon", pid |-> OwnPid] >>

ProcIds == 1 .. Len(ProcTable)

StateNames == {"STOPPED", "STARTING", "RUNNING", "STOPPING", "FATAL",
               "UNKNOWN"}

\* the supervisor's process table when the watch loop starts; the
\* coordinator's own row is RUNNING
InitTables ==
    { <<"RUNNING", "RUNNING", "RUNNING">>,
      <<"RUNNING", "STARTING", "RUNNING">>,
      <<"STOPPED", "RUNNING", "RUNNING">>,
      <<"RUNNING", "FATAL", "RUNNING">> }

\* ------------------------------------------------------- command line (args)
ArgsSpace ==
    [any : BOOLEAN, program : {{}, {"web"}}, group : {{}, {"g1"}},
     reload : BOOLEAN]

\* mutant: --group is not tested against --any
ValidateArgsGroupWithAny(a) ==
    /\ ~(a.program # {} /\ a.any)
    /\ ~(a.program = {} /\ a.group = {} /\ ~a.any)

\* validate_args, the target selector part: the combinations main() lets pass
ValidateArgs(a) ==
    /\ ~(a.program # {} /\ a.any)
    /\ ~(a.group # {} /\ a.any)
    /\ ~(a.program = {} /\ a.group = {} /\ ~a.any)

\* an optional int argument: << >> is None, << n >> the value given
Flags == { << >>, <<0>>, <<1>> }

\* what parser.parse_args() can return; for the four pattern lists only
\* their truth value (non-empty) is kept
ParsedArgs ==
    [enable : Flags, disable : Flags,
     recognize : BOOLEAN, ignore : BOOLEAN,
     recognize_regex : BOOLEAN, ignore_regex : BOOLEAN,
     any : BOOLEAN, program : {{}, {"web"}}, group : {{}, {"g1"}},
     reload : BOOLEAN]

\* validate_args: TRUE when no usage_error is raised
validate_args(a) ==
    /\ ~(a.enable # << >> /\ a.disable # << >>)
    /\ ~((a.recognize \/ a.ignore) /\ (a.recognize_regex \/ a.ignore_regex))
    /\ ValidateArgs(a)

\* ----------------------------------------------------- reloadConfig results
ReloadResults ==
    { [added |-> << >>,     changed |-> << >>,     removed |-> << >>],
      [added |-> <<"g3">>,  changed |-> <<"g2">>,  removed |-> <<"old", "gone">>] }

\* stopProcessGroup returns one result per member process of the group
StopStatuses == {"SUCCESS", "FAILED"}

RECURSIVE SeqsUpTo(_, _)
SeqsUpTo(S, n) ==
    IF n = 0 THEN { << >> }
    ELSE LET shorter == SeqsUpTo(S, n - 1)
         IN  shorter \cup { Append(s, x) : s \in shorter, x \in S }

GroupStopResults == SeqsUpTo(StopStatuses, MaxMembers)

\* ------------------------------------------------------------------ state
VARIABLES
    args,                 \* parsed command line, fixed after main()
    pre_restarting_lock,  \* admission gate, TRUE = locked
    restarting_lock,      \* execution gate, TRUE = locked
    pc,                   \* position of every thread in commence_restart
    loc,                  \* locals of every thread
    statename,            \* the supervisor's process table
    exited,               \* the whole process has terminated
    main,                 \* position of the main thread in main()
    win,                  \* history: the run's first debounce window
    watch                 \* history: the cycle a signal arrived during, and
                          \* the cycles begun after it without a new signal

vars == << args, pre_restarting_lock, restarting_lock, pc, loc, statename,
           exited, main, win, watch >>

hist == << win, watch >>

LocInit ==
    [ added   |-> << >>, changed |-> << >>, removed |-> << >>,
      updated |-> << >>,      \* updated_groups
      procs   |-> << >>,      \* statenames of the list fetched at line 207
      names   |-> << >>,      \* restart_names
      iter    |-> << >>,      \* the list(...) copy being iterated
      i       |-> 1,          \* position in the iterated list
      seen    |-> {},         \* targets a status query reported STOPPED
      gcalls  |-> << >>,      \* group calls made by update_groups
      reqs    |-> << >> ]     \* stop/start requests made by restart_programs

WinInit == [late |-> FALSE, wins |-> 0, absorbed |-> FALSE, cycles |-> 0,
            stops |-> [p \in ProcIds |-> 0]]

WinLate == [WinInit EXCEPT !.late = TRUE]

WatchInit == [phase |-> "none", t |-> 0, later |-> 0]

Init ==
    /\ args \in { a \in ArgsSpace : ValidateArgs(a) }
    /\ pre_restarting_lock = FALSE
    /\ restarting_lock = FALSE
    /\ pc = [t \in Threads |-> "idle"]
    /\ loc = [t \in Threads |-> LocInit]
    /\ statename \in InitTables
    /\ exited = FALSE
    /\ main = "watching"
    /\ win = WinInit
    /\ watch = WatchInit

\* --------------------------------------------------------- thread positions
DeadPcs == {"dead_exit", "dead_fault", "dead_name"}

ReconcilePcs == {"reload", "rm_stop", "rm_remove", "ch_stop", "ch_remove",
                 "ch_add", "ad_add"}

SequencerPcs == {"fetch", "stop", "get", "start"}

\* the cycle body: lines 239-244, between the two releases
BodyPcs == ReconcilePcs \cup SequencerPcs \cup {"release"}

InBody(t) == pc[t] \in BodyPcs

\* ------------------------------------------------------------ the notifier
\* RestartEventHandler.on_any_event: one new thread per change signal
Spawn(t) ==
    /\ ~exited
    /\ pc[t] = "idle"
    /\ \A u \in Threads : pc[u] = "idle" => t <= u
    /\ pc' = [pc EXCEPT ![t] = "try"]
    /\ UNCHANGED << args, pre_restarting_lock, restarting_lock, loc,
                    statename, exited, main, hist >>

\* ------------------------------------------------------- commence_restart
\* the signal tried for admission inside the run's first debounce window
InFirstWindow ==
    /\ win.cycles = 0
    /\ \/ win.wins = 0
       \/ \E u \in Threads : pc[u] = "debounce"

\* mutant: the result of the try-acquire is not tested
TryAdmissionUnchecked(t) ==
    /\ ~exited
    /\ pc[t] = "try"
    /\ pre_restarting_lock' = TRUE
    /\ pc' = [pc EXCEPT ![t] = "debounce"]
    /\ win' = IF win.late THEN win
              ELSE IF InFirstWindow THEN [win EXCEPT !.wins = @ + 1]
                   ELSE WinLate
    /\ watch' = IF \E x \in Threads : InBody(x)
                THEN [phase |-> "during",
                      t     |-> CHOOSE x \in Threads : InBody(x),
                      later |-> 0]
                ELSE IF watch.phase = "after" THEN WatchInit
                ELSE watch
    /\ UNCHANGED << args, restarting_lock, loc, statename, exited, main >>

\* mutant: the return after a failed try-acquire is missing
TryAdmissionNoReturn(t) ==
    /\ ~exited
    /\ pc[t] = "try"
    /\ pre_restarting_lock' = TRUE
    /\ pc' = [pc EXCEPT ![t] = "debounce"]
    /\ win' = IF win.late THEN win
              ELSE IF InFirstWindow
                   THEN IF ~pre_restarting_lock
                        THEN [win EXCEPT !.wins = @ + 1]
                        ELSE [win EXCEPT !.absorbed = TRUE]
                   ELSE WinLate
    /\ UNCHANGED << args, restarting_lock, loc, statename, exited, main,
                    watch >>

\* pre_restarting_lock.acquire(False), and the return when it fails
TryAdmission(t) ==
    /\ ~exited
    /\ pc[t] = "try"
    /\ IF ~pre_restarting_lock
       THEN /\ pre_restarting_lock' = TRUE
            /\ pc' = [pc EXCEPT ![t] = "debounce"]
       ELSE /\ pre_restarting_lock' = pre_restarting_lock
            /\ pc' = [pc EXCEPT ![t] = "idle"]
    /\ win' = IF win.late THEN win
              ELSE IF InFirstWindow
                   THEN IF ~pre_restarting_lock
                        THEN [win EXCEPT !.wins = @ + 1]
                        ELSE [win EXCEPT !.absorbed = TRUE]
                   ELSE WinLate
    /\ watch' = IF \E x \in Threads : InBody(x)
                THEN [phase |-> "during",
                      t     |-> CHOOSE x \in Threads : InBody(x),
                      later |-> 0]
                ELSE IF watch.phase = "after" THEN WatchInit
                ELSE watch
    /\ UNCHANGED << args, restarting_lock, loc, statename, exited, main >>

\* mutant: the admission gate is released before the execution gate is taken
DebounceReleasesEarly(t) ==
    /\ ~exited
    /\ pc[t] = "debounce"
    /\ pre_restarting_lock' = FALSE
    /\ pc' = [pc EXCEPT ![t] = "acquire"]
    /\ UNCHANGED << args, restarting_lock, loc, statename, exited, main,
                    hist >>

\* time.sleep(0.1), the debounce interval
Debounce(t) ==
    /\ ~exited
    /\ pc[t] = "debounce"
    /\ pc' = [pc EXCEPT ![t] = "acquire"]
    /\ UNCHANGED << args, pre_restarting_lock, restarting_lock, loc,
                    statename, exited, main, hist >>

\* mutant: the execution gate is taken without waiting for its holder
AcquireExecNoWait(t) ==
    /\ ~exited
    /\ pc[t] = "acquire"
    /\ restarting_lock' = TRUE
    /\ pc' = [pc EXCEPT ![t] = "relpre"]
    /\ UNCHANGED << args, pre_restarting_lock, loc, statename,
                    exited, main, hist >>

\* restarting_lock.acquire(): blocks while the lock is held
AcquireExec(t) ==
    /\ ~exited
    /\ pc[t] = "acquire"
    /\ ~restarting_lock
    /\ restarting_lock' = TRUE
    /\ pc' = [pc EXCEPT ![t] = "relpre"]
    /\ UNCHANGED << args, pre_restarting_lock, loc, statename,
                    exited, main, hist >>

\* mutant: the admission gate is not released
ReleaseAdmissionKept(t) ==
    /\ ~exited
    /\ pc[t] = "relpre"
    /\ pc' = [pc EXCEPT ![t] = IF args.reload THEN "reload" ELSE "fetch"]
    /\ loc' = [loc EXCEPT ![t] = LocInit]
    /\ win' = IF win.late THEN win ELSE [win EXCEPT !.cycles = @ + 1]
    /\ watch' = IF watch.phase = "after"
                THEN [watch EXCEPT !.later = @ + 1]
                ELSE watch
    /\ UNCHANGED << args, pre_restarting_lock, restarting_lock, statename,
                    exited, main >>

\* pre_restarting_lock.release(), then the args.reload test
ReleaseAdmission(t) ==
    /\ ~exited
    /\ pc[t] = "relpre"
    /\ pre_restarting_lock' = FALSE
    /\ pc' = [pc EXCEPT ![t] = IF args.reload THEN "reload" ELSE "fetch"]
    /\ loc' = [loc EXCEPT ![t] = LocInit]
    /\ win' = IF win.late THEN win ELSE [win EXCEPT !.cycles = @ + 1]
    /\ watch' = IF watch.phase = "after"
                THEN [watch EXCEPT !.later = @ + 1]
                ELSE watch
    /\ UNCHANGED << args, restarting_lock, statename, exited, main >>

\* restarting_lock.release() and the end of the thread
ReleaseExec(t) ==
    /\ ~exited
    /\ pc[t] = "release"
    /\ restarting_lock' = FALSE
    /\ pc' = [pc EXCEPT ![t] = "idle"]
    /\ loc' = [loc EXCEPT ![t] = LocInit]
    /\ watch' = IF watch.phase = "during" /\ watch.t = t
                THEN [watch EXCEPT !.phase = "after"]
                ELSE watch
    /\ UNCHANGED << args, pre_restarting_lock, statename, exited, main,
                    win >>

\* ------------------------------------------------------------ update_groups
\* one call of update_groups: ok = it returned, results = what a group stop
\* returned
GroupCall(op, gname, ok) ==
    [op |-> op, gname |-> gname, ok |-> ok, results |-> << >>]

\* mutant: update_groups returns the added groups only
AfterAddedOnly(l, i) ==
    IF i <= Len(l.added)
    THEN << "ad_add", [l EXCEPT !.i = i] >>
    ELSE << "fetch", [l EXCEPT !.i = 1, !.updated = l.added] >>

\* the three for loops of update_groups and its return; valid_gnames is
\* always the empty set (lines 152-156), so no group is skipped
AfterAdded(l, i) ==
    IF i <= Len(l.added)
    THEN << "ad_add", [l EXCEPT !.i = i] >>
    ELSE << "fetch", [l EXCEPT !.i = 1, !.updated = l.added \o l.changed] >>

AfterChanged(l, i) ==
    IF i <= Len(l.changed)
    THEN << "ch_stop", [l EXCEPT !.i = i] >>
    ELSE AfterAdded(l, 1)

AfterRemoved(l, i) ==
    IF i <= Len(l.removed)
    THEN << "rm_stop", [l EXCEPT !.i = i] >>
    ELSE AfterChanged(l, 1)

\* a step of thread t inside the cycle body
Step(t, next) ==
    /\ pc' = [pc EXCEPT ![t] = next[1]]
    /\ loc' = [loc EXCEPT ![t] = next[2]]

\* the thread ends on an exception nobody catches; nothing is released
Die(t, how, l) ==
    Step(t, << how, [LocInit EXCEPT !.added = l.added, !.changed = l.changed,
                                    !.removed = l.removed,
                                    !.gcalls = l.gcalls] >>)

Logged(l, call) == [l EXCEPT !.gcalls = Append(@, call)]

\* rpc.supervisor.reloadConfig(); error() raises SystemExit in this thread
Reload(t) ==
    /\ ~exited
    /\ pc[t] = "reload"
    /\ \/ Die(t, "dead_exit", loc[t])
       \/ \E r \in ReloadResults :
             Step(t, AfterRemoved([loc[t] EXCEPT !.added = r.added,
                                                 !.changed = r.changed,
                                                 !.removed = r.removed], 1))
    /\ UNCHANGED << args, pre_restarting_lock, restarting_lock, statename,
                    exited, main, hist >>

\* stopProcessGroup(gname) of a removed group, and the fails computation:
\* the name xmlrpc is bound nowhere in the module (line 32 binds xmlrpclib
\* only), so testing the first result raises NameError
RemovedStop(t) ==
    /\ ~exited
    /\ pc[t] = "rm_stop"
    /\ LET l == loc[t]
           g == l.removed[l.i]
       IN  \/ Die(t, "dead_fault", Logged(l, GroupCall("stop", g, FALSE)))
           \/ \E results \in GroupStopResults :
                 LET call == [GroupCall("stop", g, TRUE)
                                  EXCEPT !.results = results]
                 IN  IF results # << >>
                     THEN Die(t, "dead_name", Logged(l, call))
                     ELSE Step(t, << "rm_remove", Logged(l, call) >>)
    /\ UNCHANGED << args, pre_restarting_lock, restarting_lock, statename,
                    exited, main, hist >>

\* removeProcessGroup(gname) of a removed group
RemovedRemove(t) ==
    /\ ~exited
    /\ pc[t] = "rm_remove"
    /\ LET l == loc[t]
           g == l.removed[l.i]
       IN  \/ Die(t, "dead_fault", Logged(l, GroupCall("remove", g, FALSE)))
           \/ Step(t, AfterRemoved(Logged(l, GroupCall("remove", g, TRUE)),
                                   l.i + 1))
    /\ UNCHANGED << args, pre_restarting_lock, restarting_lock, statename,
                    exited, main, hist >>

\* stopProcessGroup(gname) of a changed group
ChangedStop(t) ==
    /\ ~exited
    /\ pc[t] = "ch_stop"
    /\ LET l == loc[t]
           g == l.changed[l.i]
       IN  \/ Die(t, "dead_fault", Logged(l, GroupCall("stop", g, FALSE)))
           \/ Step(t, << "ch_remove", Logged(l, GroupCall("stop", g, TRUE)) >>)
    /\ UNCHANGED << args, pre_restarting_lock, restarting_lock, statename,
                    exited, main, hist >>

\* removeProcessGroup(gname) of a changed group
ChangedRemove(t) ==
    /\ ~exited
    /\ pc[t] = "ch_remove"
    /\ LET l == loc[t]
           g == l.changed[l.i]
       IN  \/ Die(t, "dead_fault", Logged(l, GroupCall("remove", g, FALSE)))
           \/ Step(t, << "ch_add", Logged(l, GroupCall("remove", g, TRUE)) >>)
    /\ UNCHANGED << args, pre_restarting_lock, restarting_lock, statename,
                    exited, main, hist >>

\* addProcessGroup(gname) of a changed group
ChangedAdd(t) ==
    /\ ~exited
    /\ pc[t] = "ch_add"
    /\ LET l == loc[t]
           g == l.changed[l.i]
       IN  \/ Die(t, "dead_fault", Logged(l, GroupCall("add", g, FALSE)))
           \/ Step(t, AfterChanged(Logged(l, GroupCall("add", g, TRUE)),
                                   l.i + 1))
    /\ UNCHANGED << args, pre_restarting_lock, restarting_lock, statename,
                    exited, main, hist >>

\* addProcessGroup(gname) of an added group
AddedAdd(t) ==
    /\ ~exited
    /\ pc[t] = "ad_add"
    /\ LET l == loc[t]
           g == l.added[l.i]
       IN  \/ Die(t, "dead_fault", Logged(l, GroupCall("add", g, FALSE)))
           \/ Step(t, AfterAdded(Logged(l, GroupCall("add", g, TRUE)),
                                 l.i + 1))
    /\ UNCHANGED << args, pre_restarting_lock, restarting_lock, statename,
                    exited, main, hist >>

\* --------------------------------------------------------- restart_programs
\* the descriptor getAllProcessInfo returns for row p in state st
Descriptor(p, st) ==
    [ name      |-> ProcTable[p].name,
      group     |-> ProcTable[p].group,
      statename |-> st,
      pid       |-> IF st \in {"STARTING", "RUNNING", "STOPPING"}
                    THEN ProcTable[p].pid ELSE 0 ]

InSeq(x, s) == \E k \in 1 .. Len(s) : s[k] = x

\* mutant: the state of the process is not looked at
requires_restart_AnyState(updated_groups, proc) ==
    /\ (args.any \/ proc.name \in args.program \/ proc.group \in args.group)
    /\ ~InSeq(proc.group, updated_groups)
    /\ proc.pid # OwnPid

requires_restart(updated_groups, proc) ==
    /\ (proc.statename = "STARTING" \/ proc.statename = "RUNNING")
    /\ (args.any \/ proc.name \in args.program \/ proc.group \in args.group)
    /\ ~InSeq(proc.group, updated_groups)
    /\ proc.pid # OwnPid

\* the restart_names comprehension over the fetched list, in list order
RestartNames(updated_groups, states) ==
    LET Test(p) == requires_restart(updated_groups, Descriptor(p, states[p]))
    IN  SelectSeq([p \in ProcIds |-> p], Test)

\* list.remove(x): drops the first occurrence
ListRemove(s, x) ==
    LET k == CHOOSE j \in 1 .. Len(s) :
                 s[j] = x /\ \A h \in 1 .. j - 1 : s[h] # x
    IN  SubSeq(s, 1, k - 1) \o SubSeq(s, k + 1, Len(s))

Request(op, target, ok) == [op |-> op, target |-> target, ok |-> ok]

Asked(l, req) == [l EXCEPT !.reqs = Append(@, req)]

\* while restart_names: ... the head of the poll loop
WhileHead(l) ==
    IF l.names = << >>
    THEN << "release", l >>
    ELSE << "get", [l EXCEPT !.iter = l.names, !.i = 1] >>

\* mutant: one poll pass only (if instead of while)
AfterPollOnePass(l, i) ==
    IF i <= Len(l.iter) THEN << "get", [l EXCEPT !.i = i] >>
    ELSE << "release", l >>

\* mutant: a poll pass goes on with the stop request of the next target
AfterPollStopsNext(l, i) ==
    IF i <= Len(l.iter) THEN << "stop", [l EXCEPT !.i = i] >> ELSE WhileHead(l)

\* next target of a poll pass, or time.sleep(0.1) and the while test
AfterPoll(l, i) ==
    IF i <= Len(l.iter) THEN << "get", [l EXCEPT !.i = i] >> ELSE WhileHead(l)

\* next target of the stop loop, or on to the poll loop
AfterStop(l, i) ==
    IF i <= Len(l.iter) THEN << "stop", [l EXCEPT !.i = i] >> ELSE WhileHead(l)

\* procs = rpc.supervisor.getAllProcessInfo() and the restart_names list
Fetch(t) ==
    /\ ~exited
    /\ pc[t] = "fetch"
    /\ \/ Die(t, "dead_fault", loc[t])
       \/ LET names == RestartNames(loc[t].updated, statename)
          IN  Step(t, AfterStop([loc[t] EXCEPT !.procs = statename,
                                               !.names = names,
                                               !.iter = names], 1))
    /\ UNCHANGED << args, pre_restarting_lock, restarting_lock, statename,
                    exited, main, hist >>

\* the supervisor accepts a stop only for a process it is running
StopAccepted(p) == statename[p] \in {"STARTING", "RUNNING"}

\* mutant: a stop fault ends the stop loop
StopOneAborts(t) ==
    /\ ~exited
    /\ pc[t] = "stop"
    /\ LET l == loc[t]
           name == l.iter[l.i]
       IN  \/ /\ StopAccepted(name)
              /\ statename' = [statename EXCEPT ![name] = "STOPPING"]
              /\ Step(t, AfterStop(Asked(l, Request("stop", name, TRUE)),
                                   l.i + 1))
           \/ /\ UNCHANGED statename
              /\ Step(t, WhileHead(
                     [Asked(l, Request("stop", name, FALSE))
                          EXCEPT !.names = ListRemove(@, name)]))
    /\ win' = IF win.late THEN win
              ELSE [win EXCEPT !.stops[loc[t].iter[loc[t].i]] = @ + 1]
    /\ UNCHANGED << args, pre_restarting_lock, restarting_lock, exited, main,
                    watch >>

\* rpc.supervisor.stopProcess(name, False) and its except clause
StopOne(t) ==
    /\ ~exited
    /\ pc[t] = "stop"
    /\ LET l == loc[t]
           name == l.iter[l.i]
       IN  \/ /\ StopAccepted(name)
              /\ statename' = [statename EXCEPT ![name] = "STOPPING"]
              /\ Step(t, AfterStop(Asked(l, Request("stop", name, TRUE)),
                                   l.i + 1))
           \/ /\ UNCHANGED statename
              /\ Step(t, AfterStop(
                     [Asked(l, Request("stop", name, FALSE))
                          EXCEPT !.names = ListRemove(@, name)], l.i + 1))
    /\ win' = IF win.late THEN win
              ELSE [win EXCEPT !.stops[loc[t].iter[loc[t].i]] = @ + 1]
    /\ UNCHANGED << args, pre_restarting_lock, restarting_lock, exited, main,
                    watch >>

\* mutant: the polled state is not tested
GetOneNoTest(t) ==
    /\ ~exited
    /\ pc[t] = "get"
    /\ LET l == loc[t]
           name == l.iter[l.i]
       IN  \/ Die(t, "dead_fault", l)
           \/ IF statename[name] # "STOPPED"
              THEN Step(t, << "start", l >>)
              ELSE Step(t, << "start", [l EXCEPT !.seen = @ \cup {name}] >>)
    /\ UNCHANGED << args, pre_restarting_lock, restarting_lock, statename,
                    exited, main, hist >>

\* proc = rpc.supervisor.getProcessInfo(name) and the STOPPED test
GetOne(t) ==
    /\ ~exited
    /\ pc[t] = "get"
    /\ LET l == loc[t]
           name == l.iter[l.i]
       IN  \/ Die(t, "dead_fault", l)
           \/ IF statename[name] # "STOPPED"
              THEN Step(t, AfterPoll(l, l.i + 1))
              ELSE Step(t, << "start", [l EXCEPT !.seen = @ \cup {name}] >>)
    /\ UNCHANGED << args, pre_restarting_lock, restarting_lock, statename,
                    exited, main, hist >>

\* the supervisor accepts a start only for a process that is not running
StartAccepted(p) == statename[p] \in {"STOPPED", "FATAL"}

\* mutant: a started target is not taken out of restart_names
StartOneKeepsName(t) ==
    /\ ~exited
    /\ pc[t] = "start"
    /\ LET l == loc[t]
           name == l.iter[l.i]
       IN  \/ /\ StartAccepted(name)
              /\ statename' = [statename EXCEPT ![name] = "STARTING"]
              /\ Step(t, AfterPoll(Asked(l, Request("start", name, TRUE)),
                                   l.i + 1))
           \/ /\ UNCHANGED statename
              /\ Step(t, AfterPoll(
                     [Asked(l, Request("start", name, FALSE))
                          EXCEPT !.names = ListRemove(@, name)], l.i + 1))
    /\ UNCHANGED << args, pre_restarting_lock, restarting_lock, exited, main,
                    hist >>

\* mutant: a target whose start faulted stays in restart_names
StartOneRetries(t) ==
    /\ ~exited
    /\ pc[t] = "start"
    /\ LET l == loc[t]
           name == l.iter[l.i]
       IN  \/ /\ StartAccepted(name)
              /\ statename' = [statename EXCEPT ![name] = "STARTING"]
              /\ Step(t, AfterPoll(
                     [Asked(l, Request("start", name, TRUE))
                          EXCEPT !.names = ListRemove(@, name)], l.i + 1))
           \/ /\ UNCHANGED statename
              /\ Step(t, AfterPoll(Asked(l, Request("start", name, FALSE)),
                                   l.i + 1))
    /\ UNCHANGED << args, pre_restarting_lock, restarting_lock, exited, main,
                    hist >>

\* rpc.supervisor.startProcess(name, False); the target leaves restart_names
\* on both branches
StartOne(t) ==
    /\ ~exited
    /\ pc[t] = "start"
    /\ LET l == loc[t]
           name == l.iter[l.i]
       IN  \/ /\ StartAccepted(name)
              /\ statename' = [statename EXCEPT ![name] = "STARTING"]
              /\ Step(t, AfterPoll(
                     [Asked(l, Request("start", name, TRUE))
                          EXCEPT !.names = ListRemove(@, name)], l.i + 1))
           \/ /\ UNCHANGED statename
              /\ Step(t, AfterPoll(
                     [Asked(l, Request("start", name, FALSE))
                          EXCEPT !.names = ListRemove(@, name)], l.i + 1))
    /\ UNCHANGED << args, pre_restarting_lock, restarting_lock, exited, main,
                    hist >>

\* ------------------------------------------------------------ the supervisor
\* a process the supervisor is stopping or starting gets there by itself;
\* a process it fails to kill is left in the state UNKNOWN
Supervisor(p) ==
    /\ ~exited
    /\ \/ /\ statename[p] = "STOPPING"
          /\ statename' = [statename EXCEPT ![p] = "STOPPED"]
       \/ /\ statename[p] = "STOPPING"
          /\ statename' = [statename EXCEPT ![p] = "UNKNOWN"]
       \/ /\ statename[p] = "STARTING"
          /\ statename' = [statename EXCEPT ![p] = "RUNNING"]
       \/ /\ statename[p] = "STARTING"
          /\ statename' = [statename EXCEPT ![p] = "FATAL"]
    /\ UNCHANGED << args, pre_restarting_lock, restarting_lock, pc, loc,
                    exited, main, hist >>

\* ------------------------------------------------------------- termination
\* handle_term stops the observer, main's loop ends and the process exits;
\* the restart threads are gone with it
Terminate ==
    /\ ~exited
    /\ exited' = TRUE
    /\ main' = "exited"
    /\ pc' = [t \in Threads |-> "killed"]
    /\ loc' = [t \in Threads |-> LocInit]
    /\ pre_restarting_lock' = FALSE
    /\ restarting_lock' = FALSE
    /\ win' = WinLate
    /\ watch' = WatchInit
    /\ UNCHANGED << args, statename >>

\* -------------------------------------------------------------------- main
\* validate_args(args); usage_error ends the process with status 2
MainValidate ==
    /\ main = "parse"
    /\ IF validate_args(args)
       THEN main' = "validated" /\ exited' = exited
       ELSE main' = "usage_error" /\ exited' = TRUE
    /\ UNCHANGED << args, pre_restarting_lock, restarting_lock, pc, loc,
                    statename, hist >>

\* if args.enable == 0 or args.disable: ... signal.pause()
MainDisabledTest ==
    /\ main = "validated"
    /\ main' = IF args.enable = <<0>> \/ args.disable = <<1>>
               THEN "paused" ELSE "setup"
    /\ UNCHANGED << args, pre_restarting_lock, restarting_lock, pc, loc,
                    statename, exited, hist >>

\* handle_term while main waits in signal.pause(): observer is a local of
\* main, the handler gets NameError and calls sys.exit()
MainPausedTerm ==
    /\ main = "paused"
    /\ main' = "exited"
    /\ exited' = TRUE
    /\ UNCHANGED << args, pre_restarting_lock, restarting_lock, pc, loc,
                    statename, hist >>

\* the event handler, the observer and the rpc interface are set up and the
\* watch loop starts, or error() ends the process (bad regex, missing
\* environment variable, OSError of observer.start)
MainSetup ==
    /\ main = "setup"
    /\ \/ main' = "watching" /\ exited' = exited
       \/ main' = "error" /\ exited' = TRUE
    /\ UNCHANGED << args, pre_restarting_lock, restarting_lock, pc, loc,
                    statename, hist >>

\* ---------------------------------------------------------- specifications
ThreadStep(t) ==
    \/ TryAdmission(t)
    \/ Debounce(t)
    \/ AcquireExec(t)
    \/ ReleaseAdmission(t)
    \/ Reload(t)
    \/ RemovedStop(t)
    \/ RemovedRemove(t)
    \/ ChangedStop(t)
    \/ ChangedRemove(t)
    \/ ChangedAdd(t)
    \/ AddedAdd(t)
    \/ Fetch(t)
    \/ StopOne(t)
    \/ GetOne(t)
    \/ StartOne(t)
    \/ ReleaseExec(t)

Run ==
    \/ \E t \in Threads : Spawn(t)
    \/ \E t \in Threads : ThreadStep(t)
    \/ \E p \in ProcIds : Supervisor(p)

Next ==
    \/ Run
    \/ Terminate

Spec == Init /\ [][Next]_vars

\* A run without a termination signal, started for the program web with every
\* process RUNNING, in which every thread is scheduled and the supervisor
\* finishes what it has begun
LiveInit ==
    /\ Init
    /\ args.program = {"web"} /\ args.group = {}
    /\ statename = [p \in ProcIds |-> "RUNNING"]

Fairness ==
    /\ \A t \in Threads : WF_vars(ThreadStep(t))
    /\ \A p \in ProcIds : WF_vars(Supervisor(p))

LiveSpec == LiveInit /\ [][Run]_vars /\ Fairness

\* The same for a run in any-mode without --reload, where a cycle has two
\* targets and update_groups is never called
AnyLiveInit ==
    /\ Init
    /\ args.any /\ ~args.reload
    /\ statename = [p \in ProcIds |-> "RUNNING"]

\* commence_restart with updated_groups = [] (lines 242-243)
PlainStep(t) ==
    \/ TryAdmission(t)
    \/ Debounce(t)
    \/ AcquireExec(t)
    \/ ReleaseAdmission(t)
    \/ Fetch(t)
    \/ StopOne(t)
    \/ GetOne(t)
    \/ StartOne(t)
    \/ ReleaseExec(t)

PlainRun ==
    \/ \E t \in Threads : Spawn(t)
    \/ \E t \in Threads : PlainStep(t)
    \/ \E p \in ProcIds : Supervisor(p)

PlainFairness ==
    /\ \A t \in Threads : WF_vars(PlainStep(t))
    /\ \A p \in ProcIds : WF_vars(Supervisor(p))

AnyLiveSpec == AnyLiveInit /\ [][PlainRun]_vars /\ PlainFairness

\* main() from the parsed command line to the start of the watch loop
MainInit ==
    /\ args \in ParsedArgs
    /\ main = "parse"
    /\ pre_restarting_lock = FALSE
    /\ restarting_lock = FALSE
    /\ pc = [t \in Threads |-> "idle"]
    /\ loc = [t \in Threads |-> LocInit]
    /\ statename = [p \in ProcIds |-> "RUNNING"]
    /\ exited = FALSE
    /\ win = WinInit
    /\ watch = WatchInit

MainNext ==
    \/ MainValidate
    \/ MainDisabledTest
    \/ MainPausedTerm
    \/ MainSetup

MainSpec == MainInit /\ [][MainNext]_vars

\* ------------------------------------------------------------------ claims
Range(q) == { q[k] : k \in 1 .. Len(q) }

\* the targets a cycle has sent a stop (a start) request for, and how often
Targets(l, op) ==
    { l.reqs[k].target : k \in { j \in 1 .. Len(l.reqs) : l.reqs[j].op = op } }

Acked(l) ==
    { l.reqs[k].target :
        k \in { j \in 1 .. Len(l.reqs) : l.reqs[j].op = "stop" /\ l.reqs[j].ok } }

Faulted(l) ==
    { l.reqs[k].target :
        k \in { j \in 1 .. Len(l.reqs) : l.reqs[j].op = "stop" /\ ~l.reqs[j].ok } }

\* thread t holds the list it fetched; it is through with the stop loop
HasList(t) == pc[t] \in {"stop", "get", "start", "release"}

StopsDone(t) == pc[t] \in {"get", "start", "release"}

\* the four conditions of the target selection, on the fetched list
Selected(l, p) ==
    /\ l.procs[p] \in {"STARTING", "RUNNING"}
    /\ \/ args.any
       \/ ProcTable[p].name \in args.program
       \/ ProcTable[p].group \in args.group
    /\ ProcTable[p].group \notin Range(l.updated)
    /\ Descriptor(p, l.procs[p]).pid # OwnPid

Candidates(l) == { p \in ProcIds : Selected(l, p) }

\* C1: at most one thread at a time is inside the cycle body (update_groups
\* followed by restart_programs), whatever the arrival pattern of signals.
C1_OneCycleAtATime ==
    \A t, u \in Threads : InBody(t) /\ InBody(u) => t = u

\* a thread is issuing stop requests while another one, already admitted,
\* waits for the execution gate
C1_Witness ==
    \E t, u \in Threads : pc[t] = "stop" /\ pc[u] = "acquire"

\* C2: when all signals so far arrived inside one debounce window that opened
\* with no cycle pending or executing, exactly one thread has won admission,
\* at most one cycle has begun, no process has been sent more than one stop
\* request, and at the end of that cycle every restart candidate has been
\* sent exactly one.
C2_OneCyclePerWindow ==
    (~win.late /\ win.wins > 0) =>
        /\ win.wins = 1
        /\ win.cycles <= 1
        /\ \A p \in ProcIds : win.stops[p] <= 1
        /\ \A t \in Threads :
              pc[t] = "release" =>
                 \A p \in ProcIds :
                    win.stops[p] = IF p \in Candidates(loc[t]) THEN 1 ELSE 0

\* a second signal was absorbed in the window and the window's cycle has
\* sent one stop to each of the two RUNNING processes
C2_Witness ==
    /\ ~win.late
    /\ win.absorbed
    /\ win.cycles = 1
    /\ \E t \in Threads : pc[t] = "release" /\ Candidates(loc[t]) = {1, 2}
    /\ win.stops[1] = 1 /\ win.stops[2] = 1

\* C3: every change signal is followed by a cycle that begins its body, the
\* fetch of the process list, at or after the arrival of the signal.
C3_NoChangeLost ==
    \A t \in Threads :
       (pc[t] = "try") ~> (\E u \in Threads : pc[u] = "fetch")

C5_StopIffCandidate ==
    \A t \in Threads :
       HasList(t) =>
          LET l == loc[t]
          IN  /\ Targets(l, "stop") \subseteq Candidates(l)
              /\ Targets(l, "start") \subseteq Candidates(l)
              /\ StopsDone(t) => Targets(l, "stop") = Candidates(l)
              /\ \A p \in ProcIds :
                    l.procs[p] \in {"STOPPED", "FATAL"} =>
                       p \notin Targets(l, "stop") \cup Targets(l, "start")

\* in any-mode a cycle that fetched web RUNNING and db FATAL ends having
\* stopped and started web only
C5_Witness ==
    \E t \in Threads :
       /\ pc[t] = "release"
       /\ args.any
       /\ loc[t].procs[1] = "RUNNING"
       /\ loc[t].procs[2] = "FATAL"
       /\ Targets(loc[t], "stop") = {1}
       /\ Targets(loc[t], "start") = {1}

\* C6: with --reload the set handed to restart_programs is the union of the
\* added and the changed groups of the reload result, and no process of such
\* a group is sent a stop or a start request in that cycle.
C6_UpdatedGroupsExcluded ==
    \A t \in Threads :
       (args.reload /\ pc[t] \in SequencerPcs \cup {"release"}) =>
          LET l == loc[t]
              fresh == Range(l.added) \cup Range(l.changed)
          IN  /\ Range(l.updated) = fresh
              /\ \A p \in Targets(l, "stop") \cup Targets(l, "start") :
                    ProcTable[p].group \notin fresh

\* group g2 was changed by the reload, db (of g2) was RUNNING in the fetched
\* list, and the any-mode cycle ends having stopped web but not db
C6_Witness ==
    \E t \in Threads :
       /\ pc[t] = "release"
       /\ args.any /\ args.reload
       /\ loc[t].changed = <<"g2">>
       /\ loc[t].procs[2] = "RUNNING"
       /\ Targets(loc[t], "stop") = {1}

\* C7: a target whose stop request faulted is dropped from restart_names and
\* is sent no start request, while every candidate of the cycle is sent its
\* stop request and every candidate whose stop was accepted is pending until
\* it is sent its start request, which each has been when the cycle ends.
C7_StopFaultIsLocal ==
    \A t \in Threads :
       HasList(t) =>
          LET l == loc[t]
          IN  /\ Faulted(l) \cap Targets(l, "start") = {}
              /\ Faulted(l) \cap Range(l.names) = {}
              /\ StopsDone(t) =>
                    /\ Acked(l) \cup Faulted(l) = Candidates(l)
                    /\ Range(l.names) \cup Targets(l, "start") = Acked(l)
                    /\ Range(l.names) \cap Targets(l, "start") = {}
              /\ pc[t] = "release" => Targets(l, "start") = Acked(l)

\* the stop of web faulted, db was stopped, seen STOPPED and started
C7_Witness ==
    \E t \in Threads :
       /\ pc[t] = "release"
       /\ Faulted(loc[t]) = {1}
       /\ Acked(loc[t]) = {2}
       /\ Targets(loc[t], "start") = {2}

\* the group calls the order of update_groups asks for, the removal of the
\* groups in skip left out
RECURSIVE RemovedCalls(_, _)
RemovedCalls(removed, skip) ==
    IF removed = << >> THEN << >>
    ELSE LET g == Head(removed)
         IN  << <<"stop", g>> >>
             \o (IF g \in skip THEN << >> ELSE << <<"remove", g>> >>)
             \o RemovedCalls(Tail(removed), skip)

RECURSIVE ChangedCalls(_)
ChangedCalls(changed) ==
    IF changed = << >> THEN << >>
    ELSE LET g == Head(changed)
         IN  << <<"stop", g>>, <<"remove", g>>, <<"add", g>> >>
             \o ChangedCalls(Tail(changed))

RECURSIVE AddedCalls(_)
AddedCalls(added) ==
    IF added = << >> THEN << >>
    ELSE << <<"add", Head(added)>> >> \o AddedCalls(Tail(added))

CallsMade(l) == [k \in 1 .. Len(l.gcalls) |-> << l.gcalls[k].op, l.gcalls[k].gname >>]

\* the removed groups whose stop returned a FAILED result for a member
FailedStops(l) ==
    { l.gcalls[k].gname :
        k \in { j \in 1 .. Len(l.gcalls) :
                   /\ l.gcalls[j].op = "stop"
                   /\ "FAILED" \in Range(l.gcalls[j].results) } }

\* C8: once update_groups is over without a faulting group call, the calls it
\* made are: stop and remove of every removed group (the remove left out
\* after a failed member stop), then stop, remove and add of every changed
\* group, then add of every added group.
C8_CallOrder ==
    \A t \in Threads :
       (args.reload /\ pc[t] \in SequencerPcs \cup {"release", "dead_name"}) =>
          LET l == loc[t]
          IN  CallsMade(l) = RemovedCalls(l.removed, FailedStops(l))
                             \o ChangedCalls(l.changed)
                             \o AddedCalls(l.added)

\* C9: a FAILED member result of a removed group's stop keeps the group from
\* being removed and leaves the thread running its cycle.
C9_FailedRemovalContinues ==
    \A t \in Threads :
       \A g \in FailedStops(loc[t]) :
          /\ <<"remove", g>> \notin Range(CallsMade(loc[t]))
          /\ pc[t] \in BodyPcs

\* C10: a fault of reloadConfig ends the whole process, and the cycle has
\* made no group call and no process request.
C10_ReloadFaultIsFatal ==
    \A t \in Threads :
       pc[t] = "dead_exit" =>
          /\ loc[t].gcalls = << >>
          /\ loc[t].reqs = << >>
          /\ exited

\* the command line passed validate_args
Accepted == main \in {"validated", "paused", "setup", "watching"}

Selectors(a) ==
    (IF a.program # {} THEN {"program"} ELSE {})
    \cup (IF a.group # {} THEN {"group"} ELSE {})
    \cup (IF a.any THEN {"any"} ELSE {})

\* C11 (as stated): a command line that passes validation does not give both
\* --enable and --disable and selects the targets by exactly one of program
\* names, group names and any-mode.
C11_ExactlyOneSelector ==
    Accepted =>
       /\ ~(args.enable # << >> /\ args.disable # << >>)
       /\ Cardinality(Selectors(args)) = 1

\* C11 (amended): a command line that passes validation does not give both
\* --enable and --disable, names at least one selector, and combines any-mode
\* with neither program names nor group names; program names and group names
\* may be given together.
C11_ValidationRejects ==
    Accepted =>
       /\ ~(args.enable # << >> /\ args.disable # << >>)
       /\ Selectors(args) # {}
       /\ "any" \in Selectors(args) => Selectors(args) = {"any"}

\* the watch loop runs for a command line with a program name and a group
C11_Witness ==
    /\ main = "watching"
    /\ Selectors(args) = {"program", "group"}

\* thread t has won the admission gate and has not released it yet
Pending(t) == pc[t] \in {"debounce", "acquire", "relpre"}

\* C12: at most one thread at a time is a pending cycle (between winning the
\* admission gate at line 233 and releasing it at line 238), and the
\* admission gate is locked exactly while there is one.
C12_OnePendingCycle ==
    /\ \A t, u \in Threads : Pending(t) /\ Pending(u) => t = u
    /\ pre_restarting_lock <=> \E t \in Threads : Pending(t)

\* one cycle polls its targets, one thread is in its debounce sleep, and a
\* third signal is about to try for admission
C12_Witness ==
    \E t, u, v \in Threads :
       pc[t] = "get" /\ pc[u] = "debounce" /\ pc[v] = "try"

\* C13: the step of a thread that finds the admission gate locked at its
\* try-acquire ends that thread and changes nothing else: both gates, the
\* locals (lists and requests) of every thread, the position of every other
\* thread and the supervisor's process table are as before.
C13_FailedTryIsNoOp ==
    [][\A t \in Threads :
          (pc[t] = "try" /\ pre_restarting_lock /\ pc'[t] # "try" /\ ~exited')
             => /\ pc' = [pc EXCEPT ![t] = "idle"]
                /\ UNCHANGED << pre_restarting_lock, restarting_lock, loc,
                                statename, args >>]_vars

\* a signal of the first window found the gate locked and its thread is
\* gone, while the winner waits to begin its cycle
C13_Witness ==
    /\ ~win.late /\ win.absorbed /\ win.cycles = 0
    /\ \E t \in Threads :
          /\ pc[t] = "acquire"
          /\ \A u \in Threads \ {t} : pc[u] = "idle"

\* the operations of the requests a cycle has made, in the order made
Ops(l) == [k \in 1 .. Len(l.reqs) |-> l.reqs[k].op]

\* C14: in the requests of one cycle no start request comes before a stop
\* request.
C14_StopsBeforeStarts ==
    \A t \in Threads :
       \A j, k \in 1 .. Len(loc[t].reqs) :
          (j < k /\ loc[t].reqs[j].op = "start") => loc[t].reqs[k].op = "start"

\* web and db were stopped in list order and db, the first to be seen
\* STOPPED, was started before web
C14_Witness ==
    \E t \in Threads :
       /\ pc[t] = "release"
       /\ Ops(loc[t]) = <<"stop", "stop", "start", "start">>
       /\ loc[t].reqs[1].target = 1 /\ loc[t].reqs[2].target = 2
       /\ loc[t].reqs[3].target = 2 /\ loc[t].reqs[4].target = 1

\* C15: a target is sent a start request only after its stop request of the
\* same cycle was accepted and a status query of the cycle reported it
\* STOPPED; a status query that reports another state leaves the target
\* pending and sends nothing.
C15_StartOnlyAfterStopped ==
    /\ [](\A t \in Threads :
            LET l == loc[t]
            IN  /\ Targets(l, "start") \subseteq (Acked(l) \cap l.seen)
                /\ pc[t] = "start" => l.iter[l.i] \in (Acked(l) \cap l.seen))
    /\ [][\A t \in Threads :
            (/\ pc[t] = "get"
             /\ statename[loc[t].iter[loc[t].i]] # "STOPPED"
             /\ pc'[t] \in BodyPcs)
               => /\ pc'[t] = "get"
                  /\ loc'[t].names = loc[t].names
                  /\ loc'[t].reqs = loc[t].reqs]_vars

\* web, polled before db in this pass, was not STOPPED yet and is still
\* pending without a start request, while db, reported STOPPED, is about to
\* be started
C15_Witness ==
    \E t \in Threads :
       /\ pc[t] = "start"
       /\ loc[t].iter = <<1, 2>> /\ loc[t].i = 2
       /\ loc[t].seen = {2}
       /\ loc[t].names = <<1, 2>>
       /\ Targets(loc[t], "start") = {}
       /\ statename[1] = "STOPPING"

\* how many requests op the cycle has sent for target p
Count(l, op, p) ==
    Cardinality({ k \in 1 .. Len(l.reqs) :
                     l.reqs[k].op = op /\ l.reqs[k].target = p })

\* C16: in one cycle every target is sent at most one stop and at most one
\* start request, a target whose stop faulted or whose start was sent
\* (accepted or not) is not in restart_names, and nothing ever enters
\* restart_names after the list was built.
C16_NoWayBack ==
    /\ [](\A t \in Threads :
            LET l == loc[t]
            IN  /\ \A p \in ProcIds :
                      Count(l, "stop", p) <= 1 /\ Count(l, "start", p) <= 1
                /\ Range(l.names) \cap (Faulted(l) \cup Targets(l, "start")) = {})
    /\ [][\A t \in Threads :
            (HasList(t) /\ pc'[t] \in {"stop", "get", "start", "release"})
               => Range(loc'[t].names) \subseteq Range(loc[t].names)]_vars

\* the cycle ends with the stop of db faulted and the start of web faulted,
\* each sent once
C16_Witness ==
    \E t \in Threads :
       /\ pc[t] = "release"
       /\ loc[t].reqs = << Request("stop", 1, TRUE), Request("stop", 2, FALSE),
                           Request("start", 1, FALSE) >>

\* a target still pending in the cycle of t can never be reported STOPPED
Stuck(t) == \E p \in Range(loc[t].names) : statename[p] = "UNKNOWN"

\* C17: the poll loop runs exactly while restart_names is not empty, and a
\* cycle in its poll loop ends and releases the execution gate unless a
\* pending target is never reported STOPPED (its status query faults, or the
\* supervisor has left it UNKNOWN).
C17_PollLoopEnds ==
    /\ [](\A t \in Threads :
            /\ pc[t] \in {"get", "start"} => loc[t].names # << >>
            /\ pc[t] = "release" => loc[t].names = << >>)
    /\ (\E t \in Threads : pc[t] = "get")
          ~> (\/ ~restarting_lock
              \/ \E t \in Threads : pc[t] = "dead_fault" \/ Stuck(t))

\* both targets were seen STOPPED and started, the poll loop is over, and
\* the next cycle waits for the gate
C17_Witness ==
    \E t, u \in Threads :
       /\ pc[t] = "release"
       /\ loc[t].seen = {1, 2}
       /\ Targets(loc[t], "start") = {1, 2}
       /\ pc[u] = "acquire"

\* the cycle of t holds the execution gate and cannot end: a target it
\* waits for is UNKNOWN, or its thread has ended on a fault
HeldForGood(t) ==
    /\ restarting_lock
    /\ \/ pc[t] \in {"stop", "get", "start"} /\ Stuck(t)
       \/ pc[t] = "dead_fault"

\* C18: once a pending target of a cycle can no longer be reported STOPPED,
\* then, as long as the process runs, the cycle does not end, the execution
\* gate stays locked, no other thread enters a cycle body, and a thread
\* admitted since stays blocked at the execution gate with the admission
\* gate locked, so that every further signal fails its try-acquire.
C18_StuckBlocksForGood ==
    [][\A t \in Threads :
          (HeldForGood(t) /\ ~exited')
             => /\ HeldForGood(t)'
                /\ \A u \in Threads \ {t} :
                      /\ pc'[u] \notin BodyPcs
                      /\ pc[u] = "acquire" =>
                            pc'[u] = "acquire" /\ pre_restarting_lock']_vars

\* web has become UNKNOWN after its stop and is polled, a second thread is
\* blocked at the execution gate, a third signal is about to be absorbed
C18_Witness ==
    \E t, u, v \in Threads :
       /\ pc[t] = "get" /\ statename[loc[t].iter[loc[t].i]] = "UNKNOWN"
       /\ pc[u] = "acquire"
       /\ pc[v] = "try"

\* thread t is running and holds the execution gate
Holder(t) == pc[t] \in BodyPcs \cup {"relpre"}

\* C19: apart from a reload fault, whatever the control calls of a cycle
\* answer, the execution gate is locked only while a running thread holds
\* it.
C19_GateReleasedOnFaults ==
    (restarting_lock /\ \A t \in Threads : pc[t] # "dead_exit")
       => \E t \in Threads : Holder(t)

\* C20: a thread blocked at the execution gate waits for a cycle that is
\* running: there is no state in which a thread waits at line 237 while no
\* thread is inside a cycle body.
C20_NoGateDeadlock ==
    \A u \in Threads :
       (pc[u] = "acquire" /\ restarting_lock)
          => \E t \in Threads : InBody(t)

====
